---------------------------- MODULE Spec2Model ----------------------------
(***************************************************************************)
(* A model of the static utility surface of Result (src/src/result/         *)
(* result.ts): retry with exponential backoff, withTimeout, and the batch   *)
(* operations all / combine / combineWithAllErrors.                         *)
(*                                                                          *)
(* Each utility is one call whose inputs are drawn in the initial state.    *)
(* The asynchronous ones (retry, withTimeout) are state machines with one   *)
(* action per suspension point of the code; the synchronous ones are        *)
(* operators computed as the loops of the code compute them.                *)
(***************************************************************************)
EXTENDS Integers, Sequences, FiniteSets, TLC

(***************************************************************************)
(* Bounds of the model.                                                     *)
(***************************************************************************)
MaxAttemptsBound == 3
MaxLen == 3
MaxSteps == 3
MaxNesting == 1
MaxCalls == 3

(***************************************************************************)
(* JavaScript numbers.  A number is a dyadic rational n/d (d a power of     *)
(* two, lowest terms), or NaN.  Two more kinds stand for arguments that     *)
(* are not numbers at all: undefined and a string.                          *)
(***************************************************************************)
RECURSIVE Reduce(_, _)
Reduce(n, d) ==
    IF d > 1 /\ n % 2 = 0 THEN Reduce(n \div 2, d \div 2)
    ELSE [k |-> "num", n |-> n, d |-> d]

Int2Num(i) == [k |-> "num", n |-> i, d |-> 1]
Half(h) == Reduce(h, 2)
NaN == [k |-> "nan", n |-> 0, d |-> 1]
Undefined == [k |-> "undefined", n |-> 0, d |-> 1]
NotANumber == [k |-> "string", n |-> 0, d |-> 1]

\* typeof x === "number" (true of NaN)
TypeofNumber(x) == x.k \in {"num", "nan"}

\* a < b and a <= b on numbers: every comparison with NaN is false
NumLt(a, b) == a.k = "num" /\ b.k = "num" /\ a.n * b.d < b.n * a.d
NumLe(a, b) == a.k = "num" /\ b.k = "num" /\ a.n * b.d <= b.n * a.d

\* Number.isInteger(x)
NumberIsInteger(x) == x.k = "num" /\ x.d = 1

\* a * b
NumMul(a, b) ==
    IF a.k = "num" /\ b.k = "num" THEN Reduce(a.n * b.n, a.d * b.d) ELSE NaN

\* a + b
NumAdd(a, b) ==
    IF a.k = "num" /\ b.k = "num"
    THEN Reduce(a.n * b.d + b.n * a.d, a.d * b.d)
    ELSE NaN

\* Math.pow(b, e) for an integer e >= 0; Math.pow(NaN, 0) is 1
RECURSIVE MathPow(_, _)
MathPow(b, e) == IF e = 0 THEN Int2Num(1) ELSE NumMul(b, MathPow(b, e - 1))

\* Math.min(a, b): NaN if either argument is NaN
MathMin(a, b) ==
    IF a.k = "num" /\ b.k = "num"
    THEN (IF NumLe(a, b) THEN a ELSE b)
    ELSE NaN

(***************************************************************************)
(* Results and thrown values.                                               *)
(***************************************************************************)
Ok(data) == [tag |-> "Success", data |-> data]
Err(error) == [tag |-> "Failure", error |-> error]
IsOk(r) == r.tag = "Success"
IsErr(r) == r.tag = "Failure"

\* new Error(message)
ErrorObj(message) == [name |-> "Error", message |-> message]
\* the value of a variable that was never assigned
UndefinedValue == [name |-> "undefined", message |-> ""]
NoResult == [tag |-> "none"]

\* what fn resolves with, and what it rejects with
Values == {"v1", "v2"}
Rejections == {ErrorObj("e1"), ErrorObj("e2")}

VARIABLES
    fn,            \* retry: TRUE iff the fn argument is callable
    options,       \* retry: the options argument
    rpc,           \* retry: position of the call
    attempts,      \* retry: the local attempts
    lastError,     \* retry: the local lastError
    invocations,   \* retry: the outcome of every invocation of fn so far
    inFlight,      \* retry: the number of invocations of fn not yet settled
    delays,        \* retry: every delay handed to setTimeout so far
    retryResult,   \* retry: what the returned promise resolved to
    promise,       \* withTimeout: the promise argument, its kind and its state
    timeoutMs,     \* withTimeout: the timeoutMs argument
    timeoutError,  \* withTimeout: the timeoutError argument
    wpc,           \* withTimeout: position of the call
    thenAttached,  \* withTimeout: promise.then(Result.ok) was called
    reactionDone,  \* withTimeout: the reaction attached by then has run
    timer,         \* withTimeout: the timer of setTimeout
    returned,      \* withTimeout: the promise handed back to the caller
    results,       \* batch: the results argument
    allOut,        \* batch: what Result.all returned
    combineOut,    \* batch: what Result.combine returned
    allErrorsOut,  \* batch: what Result.combineWithAllErrors returned
    collectOut,    \* batch: what Result.collect returned
    partitionOut,  \* batch: what Result.partition returned
    allSettledOut, \* batch: what Result.allSettled returned
    chainFns,      \* chain: the fns arguments, each a function or not
    initialValue,  \* chain: the argument of the function chain returned
    cpc,           \* chain: position of the two calls
    chainI,        \* chain: the position of the for loop in fns
    current,       \* chain: the local current
    chainCalls,    \* chain: every invocation of a step so far
    chainOut,      \* chain: what the call returned or threw
    optCall,       \* Option: the operation called and its arguments
    optRet,        \* Option: what the call returned or threw
    regA,          \* Option values: an Option the program holds
    regB,          \* Option values: another Option the program holds
    someCall,      \* Option values: the last operation and its arguments
    someRet,       \* Option values: what it returned or threw
    mCall,         \* methods: the method called and its arguments
    mRet           \* methods: what the call returned or threw

retryVars == <<fn, options, rpc, attempts, lastError, invocations, inFlight,
               delays, retryResult>>
timeoutVars == <<promise, timeoutMs, timeoutError, wpc, thenAttached,
                 reactionDone, timer, returned>>
batchVars == <<results, allOut, combineOut, allErrorsOut, collectOut,
               partitionOut, allSettledOut>>
chainVars == <<chainFns, initialValue, cpc, chainI, current, chainCalls,
               chainOut>>
optVars == <<optCall, optRet>>
someVars == <<regA, regB, someCall, someRet>>
methodVars == <<mCall, mRet>>
vars == <<retryVars, timeoutVars, batchVars, chainVars, optVars, someVars,
          methodVars>>

\* what a step of one utility leaves alone: the calls of the others
RetryFrame ==
    UNCHANGED <<timeoutVars, batchVars, chainVars, optVars, someVars,
                methodVars>>
TimeoutFrame ==
    UNCHANGED <<retryVars, batchVars, chainVars, optVars, someVars,
                methodVars>>
BatchFrame ==
    UNCHANGED <<retryVars, timeoutVars, chainVars, optVars, someVars,
                methodVars>>
ChainFrame ==
    UNCHANGED <<retryVars, timeoutVars, batchVars, optVars, someVars,
                methodVars>>
OptFrame ==
    UNCHANGED <<retryVars, timeoutVars, batchVars, chainVars, someVars,
                methodVars>>
MethodFrame ==
    UNCHANGED <<retryVars, timeoutVars, batchVars, chainVars, optVars,
                someVars>>
SomeFrame ==
    UNCHANGED <<retryVars, timeoutVars, batchVars, chainVars, optVars,
                methodVars>>

(***************************************************************************)
(* Result.retry                                                             *)
(***************************************************************************)
DefaultMaxAttempts == 3
DefaultBaseDelay == 100
DefaultMaxDelay == 5000
DefaultExponentialBase == 2

\* destructuring with defaults: undefined takes the default
OrDefault(x, dflt) == IF x.k = "undefined" THEN Int2Num(dflt) ELSE x
maxAttempts == OrDefault(options.maxAttempts, DefaultMaxAttempts)
baseDelay == OrDefault(options.baseDelay, DefaultBaseDelay)
maxDelay == OrDefault(options.maxDelay, DefaultMaxDelay)
exponentialBase == OrDefault(options.exponentialBase, DefaultExponentialBase)

\* the three validation failures, in the order the code tests them
RetryNotFunction == ~fn
RetryBadMaxAttempts ==
    NumLt(maxAttempts, Int2Num(1)) \/ ~NumberIsInteger(maxAttempts)
RetryBadDelays ==
    \/ NumLt(baseDelay, Int2Num(0))
    \/ NumLt(maxDelay, Int2Num(0))
    \/ NumLe(exponentialBase, Int2Num(0))

RetryValidationError ==
    IF RetryNotFunction THEN ErrorObj("retry requires a function argument")
    ELSE IF RetryBadMaxAttempts
         THEN ErrorObj("maxAttempts must be a positive integer")
         ELSE ErrorObj("Delays and exponential base must be non-negative numbers")

\* a slip of the loop test: <= for <
LoopGuardInclusive(a) == NumLe(Int2Num(a), maxAttempts)

\* while (attempts < maxAttempts)
LoopGuard(a) == NumLt(Int2Num(a), maxAttempts)

\* Math.min(baseDelay * Math.pow(exponentialBase, attempts - 1), maxDelay)
BackoffDelay(a) ==
    MathMin(NumMul(baseDelay, MathPow(exponentialBase, a - 1)), maxDelay)

\* entry of retry up to the loop: validation, then attempts = 0
RetryStart ==
    /\ rpc = "called"
    /\ IF RetryNotFunction \/ RetryBadMaxAttempts \/ RetryBadDelays
       THEN /\ retryResult' =
                 Err([attempts |-> 0, lastError |-> RetryValidationError])
            /\ rpc' = "returned"
       ELSE /\ rpc' = "loop"
            /\ UNCHANGED retryResult
    /\ UNCHANGED <<fn, options, attempts, lastError, invocations, inFlight,
                   delays>>
    /\ RetryFrame

\* loop test true: attempts++, fn() is called and awaited
RetryInvoke ==
    /\ rpc = "loop"
    /\ LoopGuard(attempts)
    /\ attempts' = attempts + 1
    /\ inFlight' = inFlight + 1
    /\ rpc' = "awaitFn"
    /\ UNCHANGED <<fn, options, lastError, invocations, delays, retryResult>>
    /\ RetryFrame

\* a slip of the try block: the value is kept but the loop goes on
FnResolvesAndContinues ==
    /\ rpc = "awaitFn"
    /\ \E v \in Values :
          /\ invocations' = Append(invocations, Ok(v))
          /\ retryResult' = Ok(v)
    /\ inFlight' = inFlight - 1
    /\ rpc' = "loop"
    /\ UNCHANGED <<fn, options, attempts, lastError, delays>>
    /\ RetryFrame

\* the awaited fn() resolves: return Result.ok(result)
FnResolves ==
    /\ rpc = "awaitFn"
    /\ \E v \in Values :
          /\ invocations' = Append(invocations, Ok(v))
          /\ retryResult' = Ok(v)
    /\ inFlight' = inFlight - 1
    /\ rpc' = "returned"
    /\ UNCHANGED <<fn, options, attempts, lastError, delays>>
    /\ RetryFrame

\* a slip of the catch block: the next attempt does not wait for a backoff
FnRejectsNoBackoff ==
    /\ rpc = "awaitFn"
    /\ \E e \in Rejections :
          /\ invocations' = Append(invocations, Err(e))
          /\ lastError' = e
    /\ inFlight' = inFlight - 1
    /\ rpc' = "loop"
    /\ UNCHANGED <<fn, options, attempts, retryResult, delays>>
    /\ RetryFrame

\* the awaited fn() rejects (or fn threw): the catch block
FnRejects ==
    /\ rpc = "awaitFn"
    /\ \E e \in Rejections :
          /\ invocations' = Append(invocations, Err(e))
          /\ lastError' = e
    /\ inFlight' = inFlight - 1
    /\ IF LoopGuard(attempts)
       THEN /\ delays' = Append(delays, BackoffDelay(attempts))
            /\ rpc' = "awaitDelay"
       ELSE /\ rpc' = "loop"
            /\ UNCHANGED delays
    /\ UNCHANGED <<fn, options, attempts, retryResult>>
    /\ RetryFrame

\* the timer of the backoff fires: back to the loop test
DelayElapses ==
    /\ rpc = "awaitDelay"
    /\ rpc' = "loop"
    /\ UNCHANGED <<fn, options, attempts, lastError, invocations, inFlight,
                   delays, retryResult>>
    /\ RetryFrame

\* a slip of the loop exit: the loop test is false and nothing is returned
RetryExhaustedSpins ==
    /\ rpc = "loop"
    /\ ~LoopGuard(attempts)
    /\ UNCHANGED retryVars
    /\ RetryFrame

\* loop test false: return Result.err({ attempts, lastError })
RetryExhausted ==
    /\ rpc = "loop"
    /\ ~LoopGuard(attempts)
    /\ retryResult' = Err([attempts |-> attempts, lastError |-> lastError])
    /\ rpc' = "returned"
    /\ UNCHANGED <<fn, options, attempts, lastError, invocations, inFlight,
                   delays>>
    /\ RetryFrame

(***************************************************************************)
(* Result.withTimeout                                                       *)
(***************************************************************************)
\* the promise argument: not thenable, or a promise in one of three states
NotThenable == [kind |-> "notThenable", state |-> "none", value |-> "none",
                reason |-> UndefinedValue]
Pending == [kind |-> "promise", state |-> "pending", value |-> "none",
            reason |-> UndefinedValue]
Fulfilled(v) == [kind |-> "promise", state |-> "fulfilled", value |-> v,
                 reason |-> UndefinedValue]
Rejected(e) == [kind |-> "promise", state |-> "rejected", value |-> "none",
                reason |-> e]

\* the promise handed back by withTimeout
ReturnedNone == [state |-> "none", result |-> NoResult,
                 reason |-> UndefinedValue]
ReturnedPending == [state |-> "pending", result |-> NoResult,
                    reason |-> UndefinedValue]
ReturnedFulfilled(r) == [state |-> "fulfilled", result |-> r,
                         reason |-> UndefinedValue]
ReturnedRejected(e) == [state |-> "rejected", result |-> NoResult,
                        reason |-> e]

\* timeoutError: string = "Operation timed out"
TimeoutErrorText ==
    IF timeoutError.given THEN timeoutError.text ELSE "Operation timed out"

\* !promise || !isFunction(promise.then)
TimeoutBadPromise == promise.kind = "notThenable"
\* typeof timeoutMs !== "number" || timeoutMs <= 0
TimeoutBadMs == ~TypeofNumber(timeoutMs) \/ NumLe(timeoutMs, Int2Num(0))

\* a race in which the last settlement wins
RaceSettleLastWins(p) == p

\* Promise.race: the first settlement is kept, later ones are ignored
RaceSettle(p) == IF returned.state = "pending" THEN p ELSE returned

\* the reaction attached by then is queued and has not run yet; the
\* microtask queue is drained before any timer callback runs
ReactionQueued ==
    thenAttached /\ ~reactionDone /\ promise.state \in {"fulfilled", "rejected"}

\* the synchronous body of withTimeout
WithTimeoutCall ==
    /\ wpc = "called"
    /\ wpc' = "returned"
    /\ IF TimeoutBadPromise
       THEN /\ returned' = ReturnedFulfilled(
                               Err("withTimeout requires a Promise argument"))
            /\ UNCHANGED <<thenAttached, timer>>
       ELSE IF TimeoutBadMs
            THEN /\ returned' = ReturnedFulfilled(
                                    Err("timeoutMs must be a positive number"))
                 /\ UNCHANGED <<thenAttached, timer>>
            ELSE /\ thenAttached' = TRUE
                 /\ timer' = "armed"
                 /\ returned' = ReturnedPending
    /\ UNCHANGED <<promise, timeoutMs, timeoutError, reactionDone>>
    /\ TimeoutFrame

\* the wrapped promise is fulfilled by its producer
PromiseFulfils ==
    /\ promise = Pending
    /\ \E v \in Values : promise' = Fulfilled(v)
    /\ UNCHANGED <<timeoutMs, timeoutError, wpc, thenAttached, reactionDone,
                   timer, returned>>
    /\ TimeoutFrame

\* the wrapped promise is rejected by its producer
PromiseRejects ==
    /\ promise = Pending
    /\ \E e \in Rejections : promise' = Rejected(e)
    /\ UNCHANGED <<timeoutMs, timeoutError, wpc, thenAttached, reactionDone,
                   timer, returned>>
    /\ TimeoutFrame

\* promise.then(Result.ok) settles: fulfilled with Result.ok(value), or
\* rejected with the reason of the wrapped promise (then has no onRejected)
ThenReaction ==
    /\ ReactionQueued
    /\ reactionDone' = TRUE
    /\ returned' =
         RaceSettle(IF promise.state = "fulfilled"
                    THEN ReturnedFulfilled(Ok(promise.value))
                    ELSE ReturnedRejected(promise.reason))
    /\ UNCHANGED <<promise, timeoutMs, timeoutError, wpc, thenAttached, timer>>
    /\ TimeoutFrame

\* the callback of setTimeout: resolve(Result.err(timeoutError))
TimerFires ==
    /\ timer = "armed"
    /\ ~ReactionQueued
    /\ timer' = "fired"
    /\ returned' = RaceSettle(ReturnedFulfilled(Err(TimeoutErrorText)))
    /\ UNCHANGED <<promise, timeoutMs, timeoutError, wpc, thenAttached,
                   reactionDone>>
    /\ TimeoutFrame

(***************************************************************************)
(* Result.all, Result.combine, Result.combineWithAllErrors                  *)
(***************************************************************************)
\* elements of the array that are not Results: a falsy value, and an
\* object whose isErr is not a function
Falsy == [tag |-> "falsy"]
NoIsErr == [tag |-> "noIsErr"]
\* !result || typeof result.isErr !== "function"
NotResultShaped(r) == r.tag \in {"falsy", "noIsErr"}

Errors == {ErrorObj("a"), ErrorObj("b")}
Elements ==
    {Ok(v) : v \in Values} \cup {Err(e) : e \in Errors} \cup {Falsy, NoIsErr}

\* the results argument: an array, or something that is not an array
ArrayOf(items) == [isArray |-> TRUE, items |-> items]
NotAnArray == [isArray |-> FALSE, items |-> <<>>]

\* a slip of all: the last Failure of the array is returned, not the first
AllLoopLastFailure(items, i, values) ==
    LET failures == {j \in 1 .. Len(items) : items[j].tag = "Failure"}
        last == CHOOSE j \in failures : \A l \in failures : l <= j
    IN  IF \E j \in 1 .. Len(items) : NotResultShaped(items[j])
        THEN Err(ErrorObj(
                 "all() requires an array containing only Result instances"))
        ELSE IF failures = {}
             THEN Ok([j \in 1 .. Len(items) |-> items[j].data])
             ELSE Err(items[last].error)

\* a slip of all: an element that is not a Result is skipped
RECURSIVE AllLoopSkipsMalformed(_, _, _)
AllLoopSkipsMalformed(items, i, values) ==
    IF i > Len(items) THEN Ok(values)
    ELSE IF NotResultShaped(items[i])
         THEN AllLoopSkipsMalformed(items, i + 1, values)
         ELSE IF IsErr(items[i])
              THEN Err(items[i].error)
              ELSE AllLoopSkipsMalformed(items, i + 1,
                                         Append(values, items[i].data))

\* the for loop of all, from element i on, with the values pushed so far
RECURSIVE AllLoop(_, _, _)
AllLoop(items, i, values) ==
    IF i > Len(items) THEN Ok(values)
    ELSE IF NotResultShaped(items[i])
         THEN Err(ErrorObj(
                  "all() requires an array containing only Result instances"))
         ELSE IF IsErr(items[i])
              THEN Err(items[i].error)
              ELSE AllLoop(items, i + 1, Append(values, items[i].data))

All(rs) ==
    IF ~rs.isArray THEN Err(ErrorObj("all() requires an array of Results"))
    ELSE AllLoop(rs.items, 1, <<>>)

Combine(rs) == All(rs)

\* a slip of combineWithAllErrors: it returns at the first error
RECURSIVE AllErrorsLoopFailFast(_, _, _, _)
AllErrorsLoopFailFast(items, i, values, errors) ==
    IF i > Len(items) THEN Ok(values)
    ELSE IF NotResultShaped(items[i])
         THEN Err(<<ErrorObj(
                  "combineWithAllErrors() requires an array containing only Result instances")>>)
         ELSE IF IsErr(items[i])
              THEN Err(<<items[i].error>>)
              ELSE AllErrorsLoopFailFast(items, i + 1,
                                         Append(values, items[i].data), errors)

\* the for loop of combineWithAllErrors, and the return after it
RECURSIVE AllErrorsLoop(_, _, _, _)
AllErrorsLoop(items, i, values, errors) ==
    IF i > Len(items)
    THEN (IF Len(errors) > 0 THEN Err(errors) ELSE Ok(values))
    ELSE IF NotResultShaped(items[i])
         THEN AllErrorsLoop(items, i + 1, values, Append(errors, ErrorObj(
                  "combineWithAllErrors() requires an array containing only Result instances")))
         ELSE IF IsErr(items[i])
              THEN AllErrorsLoop(items, i + 1, values,
                                 Append(errors, items[i].error))
              ELSE AllErrorsLoop(items, i + 1,
                                 Append(values, items[i].data), errors)

CombineWithAllErrors(rs) ==
    IF ~rs.isArray
    THEN Err(<<ErrorObj("combineWithAllErrors() requires an array of Results")>>)
    ELSE AllErrorsLoop(rs.items, 1, <<>>, <<>>)

CallAll ==
    /\ allOut = NoResult
    /\ allOut' = All(results)
    /\ UNCHANGED <<results, combineOut, allErrorsOut, collectOut, partitionOut,
                   allSettledOut>>
    /\ BatchFrame

CallCombine ==
    /\ combineOut = NoResult
    /\ combineOut' = Combine(results)
    /\ UNCHANGED <<results, allOut, allErrorsOut, collectOut, partitionOut,
                   allSettledOut>>
    /\ BatchFrame

CallCombineWithAllErrors ==
    /\ allErrorsOut = NoResult
    /\ allErrorsOut' = CombineWithAllErrors(results)
    /\ UNCHANGED <<results, allOut, combineOut, collectOut, partitionOut,
                   allSettledOut>>
    /\ BatchFrame

(***************************************************************************)
(* Result.collect, Result.partition, Result.allSettled                      *)
(***************************************************************************)
\* a call that threw instead of returning
Thrown(error) == [tag |-> "Thrown", error |-> error]
\* the TypeError of the runtime: a call of something that is not a function,
\* a property read off null, an iteration over something not iterable
TypeErrorObj == [name |-> "TypeError", message |-> ""]

\* a slip of collect: the loop goes on after a Failure and the last one wins
RECURSIVE CollectLoopKeepsGoing(_, _, _)
CollectLoopKeepsGoing(items, i, values) ==
    IF i > Len(items) THEN Ok(values)
    ELSE IF NotResultShaped(items[i])
         THEN Err(ErrorObj(
                  "collect() requires an array containing only Result instances"))
         ELSE IF IsErr(items[i])
              THEN (IF \E j \in i + 1 .. Len(items) : items[j].tag # "Success"
                    THEN CollectLoopKeepsGoing(items, i + 1, values)
                    ELSE Err(items[i].error))
              ELSE CollectLoopKeepsGoing(items, i + 1,
                                         Append(values, items[i].data))

\* the for loop of collect, from element i on, with the values pushed so far
RECURSIVE CollectLoop(_, _, _)
CollectLoop(items, i, values) ==
    IF i > Len(items) THEN Ok(values)
    ELSE IF NotResultShaped(items[i])
         THEN Err(ErrorObj(
                  "collect() requires an array containing only Result instances"))
         ELSE IF IsErr(items[i])
              THEN Err(items[i].error)
              ELSE CollectLoop(items, i + 1, Append(values, items[i].data))

Collect(rs) ==
    IF ~rs.isArray THEN Err(ErrorObj("collect() requires an array of Results"))
    ELSE CollectLoop(rs.items, 1, <<>>)

\* result.isOk() throws on an element that is null or has no isOk method
\* (the falsy value, and the object that has none of the methods of Result)
CannotCallIsOk(r) == r.tag \in {"falsy", "noIsErr"}

\* what partition and allSettled return
Buckets(successes, failures) ==
    [tag |-> "Returned", successes |-> successes, failures |-> failures]

\* a slip of partition: it stops at the first Failure
RECURSIVE PartitionLoopStopsAtFailure(_, _, _, _)
PartitionLoopStopsAtFailure(items, i, successes, failures) ==
    IF i > Len(items) THEN Buckets(successes, failures)
    ELSE IF CannotCallIsOk(items[i]) THEN Thrown(TypeErrorObj)
         ELSE IF IsOk(items[i])
              THEN PartitionLoopStopsAtFailure(
                       items, i + 1, Append(successes, items[i].data), failures)
              ELSE Buckets(successes, Append(failures, items[i].error))

\* the for loop of partition, from element i on
RECURSIVE PartitionLoop(_, _, _, _)
PartitionLoop(items, i, successes, failures) ==
    IF i > Len(items) THEN Buckets(successes, failures)
    ELSE IF CannotCallIsOk(items[i]) THEN Thrown(TypeErrorObj)
         ELSE IF IsOk(items[i])
              THEN PartitionLoop(items, i + 1,
                                 Append(successes, items[i].data), failures)
              ELSE PartitionLoop(items, i + 1, successes,
                                 Append(failures, items[i].error))

\* for ... of over something that is not iterable throws
Partition(rs) ==
    IF ~rs.isArray THEN Thrown(TypeErrorObj)
    ELSE PartitionLoop(rs.items, 1, <<>>, <<>>)

\* a reference to an object: id is the position in the results array of
\* the very object the caller passed, 0 for an object made by the callee
Ref(id, obj) == [id |-> id, obj |-> obj]

\* a slip of allSettled: the buckets hold rebuilt Results, not the originals
RECURSIVE AllSettledLoopCopies(_, _, _, _)
AllSettledLoopCopies(items, i, successes, failures) ==
    IF i > Len(items) THEN Buckets(successes, failures)
    ELSE IF CannotCallIsOk(items[i]) THEN Thrown(TypeErrorObj)
         ELSE IF IsOk(items[i])
              THEN AllSettledLoopCopies(
                       items, i + 1,
                       Append(successes, Ref(0, Ok(items[i].data))), failures)
              ELSE AllSettledLoopCopies(
                       items, i + 1, successes,
                       Append(failures, Ref(0, Err(items[i].error))))

\* the for loop of allSettled, from element i on: result itself is pushed
RECURSIVE AllSettledLoop(_, _, _, _)
AllSettledLoop(items, i, successes, failures) ==
    IF i > Len(items) THEN Buckets(successes, failures)
    ELSE IF CannotCallIsOk(items[i]) THEN Thrown(TypeErrorObj)
         ELSE IF IsOk(items[i])
              THEN AllSettledLoop(items, i + 1,
                                  Append(successes, Ref(i, items[i])), failures)
              ELSE AllSettledLoop(items, i + 1, successes,
                                  Append(failures, Ref(i, items[i])))

AllSettled(rs) ==
    IF ~rs.isArray THEN Thrown(TypeErrorObj)
    ELSE AllSettledLoop(rs.items, 1, <<>>, <<>>)

CallCollect ==
    /\ collectOut = NoResult
    /\ collectOut' = Collect(results)
    /\ UNCHANGED <<results, allOut, combineOut, allErrorsOut, partitionOut,
                   allSettledOut>>
    /\ BatchFrame

CallPartition ==
    /\ partitionOut = NoResult
    /\ partitionOut' = Partition(results)
    /\ UNCHANGED <<results, allOut, combineOut, allErrorsOut, collectOut,
                   allSettledOut>>
    /\ BatchFrame

CallAllSettled ==
    /\ allSettledOut = NoResult
    /\ allSettledOut' = AllSettled(results)
    /\ UNCHANGED <<results, allOut, combineOut, allErrorsOut, collectOut,
                   partitionOut>>
    /\ BatchFrame

(***************************************************************************)
(* Initial states: the arguments of one call, and the other calls idle.     *)
(***************************************************************************)
(* Result.chain                                                             *)
(***************************************************************************)
\* the decimal digits of a small index, as a template literal prints it
DigitOf(i) == <<"0", "1", "2", "3", "4", "5", "6", "7", "8", "9">>[i + 1]

\* the Error of assert(isFunction(fns[i]), ...), i counted from 0
ChainAssertError(i) ==
    ErrorObj("chain() argument at index " \o DigitOf(i)
             \o " must be a function")

\* what one invocation of a step can do: return a Result or throw
StepOutcomes ==
    {Ok(v) : v \in Values} \cup {Err(ErrorObj("a")), Thrown(ErrorObj("boom"))}

\* a slip of Success.flatMap: fn gets the initial value, not this._data
SuccessFlatMapArgStale(success) == initialValue

\* Success.flatMap(fn) is fn(this._data)
SuccessFlatMapArg(success) == success.data

\* chain(...fns): the identity chain for no fns, else every argument is
\* asserted to be a function before the chained function is returned
ChainBuild ==
    /\ cpc = "called"
    /\ LET bad == {i \in 1 .. Len(chainFns) : chainFns[i] # "function"}
           first == CHOOSE i \in bad : \A j \in bad : i <= j
       IN  IF bad = {}
           THEN /\ cpc' = "built"
                /\ chainOut' = chainOut
           ELSE /\ cpc' = "done"
                /\ chainOut' = Thrown(ChainAssertError(first - 1))
    /\ UNCHANGED <<chainFns, initialValue, chainI, current, chainCalls>>
    /\ ChainFrame

\* the caller invokes the function chain returned
ChainInvoke ==
    /\ cpc = "built"
    /\ IF Len(chainFns) = 0
       THEN /\ cpc' = "done"
            /\ chainOut' = Ok(initialValue)
            /\ UNCHANGED <<chainI, current>>
       ELSE /\ cpc' = "loop"
            /\ current' = Ok(initialValue)
            /\ chainI' = 1
            /\ chainOut' = chainOut
    /\ UNCHANGED <<chainFns, initialValue, chainCalls>>
    /\ ChainFrame

\* one iteration of the loop: current = current.flatMap(fn), break on a
\* Failure; a Failure's flatMap returns the Failure without invoking fn
ChainStep ==
    /\ cpc = "loop"
    /\ \E out \in StepOutcomes :
          LET invoked == IsOk(current)
              next == IF invoked THEN out ELSE current
          IN  /\ ~invoked => out = current
              /\ chainCalls' =
                    IF invoked
                    THEN Append(chainCalls,
                                [index |-> chainI,
                                 arg |-> SuccessFlatMapArg(current),
                                 ret |-> out])
                    ELSE chainCalls
              /\ IF next.tag = "Thrown"
                 THEN /\ cpc' = "done"
                      /\ chainOut' = next
                      /\ UNCHANGED <<chainI, current>>
                 ELSE /\ current' = next
                      /\ chainOut' = chainOut
                      /\ IF IsErr(next) \/ chainI = Len(chainFns)
                         THEN cpc' = "afterLoop" /\ chainI' = chainI
                         ELSE cpc' = "loop" /\ chainI' = chainI + 1
    /\ UNCHANGED <<chainFns, initialValue>>
    /\ ChainFrame

\* return current
ChainReturn ==
    /\ cpc = "afterLoop"
    /\ cpc' = "done"
    /\ chainOut' = current
    /\ UNCHANGED <<chainFns, initialValue, chainI, current, chainCalls>>
    /\ ChainFrame

(***************************************************************************)
(* Option                                                                   *)
(***************************************************************************)
\* the values of the language an Option or a Result is built from
JsNull == [js |-> "null", v |-> "null"]
JsUndefined == [js |-> "undefined", v |-> "undefined"]
JsZero == [js |-> "number", v |-> "0"]
JsEmptyString == [js |-> "string", v |-> ""]
JsText == [js |-> "string", v |-> "x"]
JsPair(a, b) == [js |-> "array", items |-> <<a, b>>]

IsNullOrUndefined(value) == value = JsNull \/ value = JsUndefined

\* the values that are neither null nor undefined, falsy ones among them
PresentValues == {JsZero, JsEmptyString, JsText}
AnyValues == PresentValues \cup {JsNull, JsUndefined}

\* a slip of the constructor of Some: no check of the value
NewSomeUnchecked(data) == [tag |-> "Some", data |-> data]

\* new Some(data): throws on null and undefined
NewSome(data) ==
    IF IsNullOrUndefined(data)
    THEN Thrown(ErrorObj("Some() requires a value"))
    ELSE [tag |-> "Some", data |-> data]

NewNone == [tag |-> "None"]

IsSome(option) == option.tag = "Some"
IsNone(option) == option.tag = "None"

\* the evaluation of an expression ended in an exception
Threw(outcome) == outcome.tag = "Thrown"

OptionSome(data) == NewSome(data)
OptionNone == NewNone

FromNullable(value) ==
    IF ~IsNullOrUndefined(value) THEN OptionSome(value) ELSE OptionNone

\* result.isOk() ? Option.some(result.unwrap()) : Option.none()
FromResult(result) ==
    IF CannotCallIsOk(result) THEN Thrown(TypeErrorObj)
    ELSE IF IsOk(result) THEN OptionSome(result.data) ELSE OptionNone

\* assert(!!option, ...): null and undefined in the place of the Option
ToResult(option, error) ==
    IF option = JsNull \/ option = JsUndefined
    THEN Thrown(ErrorObj("toResult() requires an Option instance"))
    ELSE IF IsSome(option) THEN Ok(option.data) ELSE Err(error)

\* a slip of Result.toOption: a falsy success value counts as absent
ToOptionTruthy(result) ==
    IF CannotCallIsOk(result) THEN NewNone
    ELSE IF IsOk(result) /\ result.data = JsText
         THEN NewSome(result.data)
         ELSE NewNone

\* Result.toOption: None for what is not a Result, else by the variant
ToOption(result) ==
    IF CannotCallIsOk(result) THEN NewNone
    ELSE IF IsOk(result) THEN NewSome(result.data) ELSE NewNone

\* the Results handed to the conversions: any value as data or as error
ResultInstances == {Ok(v) : v \in AnyValues} \cup {Err(e) : e \in AnyValues}
\* the Options that exist: a Some holds what its constructor accepted
OptionInstances == {NewNone} \cup {NewSome(v) : v \in PresentValues}

\* Result.toOption(Option.toResult(Option.some(v), e))
CallRoundTrip ==
    /\ optCall.op = "roundTrip"
    /\ optRet = NoResult
    /\ LET option == OptionSome(optCall.v)
           result == IF Threw(option) THEN option
                     ELSE ToResult(option, optCall.e)
       IN  optRet' = IF Threw(result) THEN result ELSE ToOption(result)
    /\ UNCHANGED optCall
    /\ OptFrame

CallToResult ==
    /\ optCall.op = "toResult"
    /\ optRet = NoResult
    /\ optRet' = ToResult(optCall.option, optCall.error)
    /\ UNCHANGED optCall
    /\ OptFrame

CallFromResult ==
    /\ optCall.op = "fromResult"
    /\ optRet = NoResult
    /\ optRet' = FromResult(optCall.result)
    /\ UNCHANGED optCall
    /\ OptFrame

\* what a call returns, with the arguments its callback was invoked with
Answer(value, invoked) ==
    [tag |-> "Returned", value |-> value, invoked |-> invoked]

\* a predicate is the table of its answers
Predicates == [PresentValues -> BOOLEAN]

\* what the tests expect of Some.isNoneOr: false whatever the predicate
SomeIsNoneOrFalse(data, predicate) == Answer(FALSE, <<>>)

\* Some.isNoneOr: predicate(this.data)
SomeIsNoneOr(data, predicate) == Answer(predicate[data], <<data>>)

\* a slip of None.isNoneOr: the predicate is invoked, with no value
NoneIsNoneOrInvokes(predicate) == Answer(TRUE, <<JsUndefined>>)

\* None.isNoneOr: true
NoneIsNoneOr(predicate) == Answer(TRUE, <<>>)

IsNoneOr(option, predicate) ==
    IF IsSome(option) THEN SomeIsNoneOr(option.data, predicate)
    ELSE NoneIsNoneOr(predicate)

CallIsNoneOr ==
    /\ optCall.op = "isNoneOr"
    /\ optRet = NoResult
    /\ optRet' = IsNoneOr(optCall.option, optCall.predicate)
    /\ UNCHANGED optCall
    /\ OptFrame

\* the callbacks of flatMap: the table of what fn does with each value,
\* an Option returned or an exception thrown
FlatMapValues == {JsZero, JsText}
FlatMapCallbacks ==
    [FlatMapValues -> {NewNone, Thrown(ErrorObj("boom"))}
                      \cup {NewSome(v) : v \in FlatMapValues}]

\* a slip of Some.flatMap: the Some stays when fn finds nothing
SomeFlatMapKeeps(data, callback) ==
    IF callback[data] = NewNone THEN [tag |-> "Some", data |-> data]
    ELSE callback[data]

\* Some.flatMap: fn(this.data)
SomeFlatMap(data, callback) == callback[data]

\* None.flatMap: new None()
NoneFlatMap(callback) == NewNone

FlatMap(option, callback) ==
    IF IsSome(option) THEN SomeFlatMap(option.data, callback)
    ELSE NoneFlatMap(callback)

\* o.flatMap(f).flatMap(g) and o.flatMap(x => f(x).flatMap(g))
CallFlatMapTwice ==
    /\ optCall.op = "flatMap"
    /\ optRet = NoResult
    /\ LET o == optCall.option
           f == optCall.f
           g == optCall.g
           inner == [x \in DOMAIN f |->
                        IF Threw(f[x]) THEN f[x] ELSE FlatMap(f[x], g)]
           first == FlatMap(o, f)
       IN  optRet' = [tag |-> "Returned",
                      left |-> IF Threw(first) THEN first
                               ELSE FlatMap(first, g),
                      right |-> FlatMap(o, inner)]
    /\ UNCHANGED optCall
    /\ OptFrame

(***************************************************************************)
(* Sequences of Option operations                                           *)
(***************************************************************************)
\* Some.map: new Some(fn(this.data)), fnValue being what fn returned;
\* None.map: new None()
Map(option, fnValue) ==
    IF IsSome(option) THEN NewSome(fnValue) ELSE NewNone

\* Some.filter: predicate(this.data) ? this : new None(); None.filter: this
Filter(option, keeps) ==
    IF IsSome(option) THEN (IF keeps THEN option ELSE NewNone) ELSE option

\* Some.or: this; None.or: other
Or(option, other) == IF IsSome(option) THEN option ELSE other

\* Some.xor: other.isSome() ? new None() : this;
\* None.xor: other.isSome() ? other : new None()
Xor(option, other) ==
    IF IsSome(option)
    THEN (IF IsSome(other) THEN NewNone ELSE option)
    ELSE (IF IsSome(other) THEN other ELSE NewNone)

\* Some.zip: other.isSome() ? new Some([this.data, other.unwrap()])
\*                          : new None(); None.zip: new None()
Zip(option, other) ==
    IF IsSome(option) /\ IsSome(other)
    THEN NewSome(JsPair(option.data, other.data))
    ELSE NewNone

\* how deep the pairs of zip nest in a value
RECURSIVE Nesting(_)
Nesting(value) ==
    IF value.js = "array"
    THEN LET l == Nesting(value.items[1])
             r == Nesting(value.items[2])
         IN  1 + (IF l > r THEN l ELSE r)
    ELSE 0

\* the values handed to the operations by the caller and its callbacks
SomeInputs == {JsNull, JsUndefined, JsZero, JsText}

\* the operation returns into one of the two registers; one that throws
\* leaves both as they were
Store(call, outcome) ==
    /\ someCall' = call
    /\ someRet' = outcome
    /\ IF Threw(outcome)
       THEN UNCHANGED <<regA, regB>>
       ELSE \/ regA' = outcome /\ regB' = regB
            \/ regB' = outcome /\ regA' = regA
    /\ SomeFrame

DoSome ==
    \E value \in SomeInputs :
        Store([op |-> "some", value |-> value], OptionSome(value))

DoFromNullable ==
    \E value \in SomeInputs :
        Store([op |-> "fromNullable", value |-> value], FromNullable(value))

DoFromResult ==
    \E result \in {Ok(v) : v \in SomeInputs} \cup {Err(ErrorObj("a"))} :
        Store([op |-> "fromResult", result |-> result], FromResult(result))

DoMap ==
    \E self \in {regA, regB}, fnValue \in SomeInputs :
        Store([op |-> "map", self |-> self, returned |-> fnValue],
              Map(self, fnValue))

\* the callback of flatMap returns an Option the program holds or one it
\* builds with Option.some, which may throw
DoFlatMap ==
    \E self \in {regA, regB} :
        \E fnValue \in {NewNone, regA, regB}
                        \cup {OptionSome(v) : v \in SomeInputs} :
            Store([op |-> "flatMap", self |-> self, returned |-> fnValue],
                  FlatMap(self, [x \in {self.data} |-> fnValue]))

DoZip ==
    \E self \in {regA, regB}, other \in {regA, regB} :
        /\ (IsSome(self) /\ IsSome(other)) =>
              /\ Nesting(self.data) < MaxNesting
              /\ Nesting(other.data) < MaxNesting
        /\ Store([op |-> "zip", self |-> self, other |-> other],
                 Zip(self, other))

DoFilter ==
    \E self \in {regA, regB}, keeps \in BOOLEAN :
        Store([op |-> "filter", self |-> self, keeps |-> keeps],
              Filter(self, keeps))

DoOr ==
    \E self \in {regA, regB}, other \in {regA, regB} :
        Store([op |-> "or", self |-> self, other |-> other], Or(self, other))

DoXor ==
    \E self \in {regA, regB}, other \in {regA, regB} :
        Store([op |-> "xor", self |-> self, other |-> other],
              Xor(self, other))

(***************************************************************************)
(* Methods of Result and Option that take callbacks or throw                *)
(***************************************************************************)
\* what a callback does when it is invoked: it returns a value or throws
Returns(value) == [tag |-> "Returns", value |-> value]

\* how a method call ends: the value returned or the exception thrown,
\* and the arguments its callback was invoked with, one entry per call
Returned(out, args) == [threw |-> FALSE, out |-> out, args |-> args]
Raised(error, args) == [threw |-> TRUE, out |-> error, args |-> args]

\* Success.map: new Success(fn(this._data)); newId names the new object
SuccessMap(self, does, newId) ==
    IF Threw(does) THEN Raised(does.error, <<self.obj.data>>)
    ELSE Returned(Ref(newId, Ok(does.value)), <<self.obj.data>>)

\* a slip of Failure.map: a copy of the Failure is returned
FailureMapCopies(self, does, newId) ==
    Returned(Ref(newId, self.obj), <<>>)

\* Failure.map: return this
FailureMap(self, does, newId) == Returned(self, <<>>)

\* a slip of Success.flatMap: the exception of fn becomes a Failure
SuccessFlatMapCatches(self, does, newId) ==
    IF Threw(does)
    THEN Returned(Ref(newId, Err(does.error)), <<self.obj.data>>)
    ELSE Returned(Ref(newId, does.value), <<self.obj.data>>)

\* Success.flatMap: fn(this._data), the Result fn made being a new object
SuccessFlatMap(self, does, newId) ==
    IF Threw(does) THEN Raised(does.error, <<self.obj.data>>)
    ELSE Returned(Ref(newId, does.value), <<self.obj.data>>)

\* Failure.flatMap: return this
FailureFlatMap(self, does, newId) == Returned(self, <<>>)

\* Success.andThen: fn(this._data)
SuccessAndThen(self, does, newId) ==
    IF Threw(does) THEN Raised(does.error, <<self.obj.data>>)
    ELSE Returned(Ref(newId, does.value), <<self.obj.data>>)

\* Failure.andThen: return this
FailureAndThen(self, does, newId) == Returned(self, <<>>)

\* the method named in step, on the class of self
CallMethod(self, step, newId) ==
    IF IsOk(self.obj)
    THEN CASE step.method = "map" -> SuccessMap(self, step.does, newId)
           [] step.method = "flatMap" ->
                SuccessFlatMap(self, step.does, newId)
           [] step.method = "andThen" ->
                SuccessAndThen(self, step.does, newId)
    ELSE CASE step.method = "map" -> FailureMap(self, step.does, newId)
           [] step.method = "flatMap" ->
                FailureFlatMap(self, step.does, newId)
           [] step.method = "andThen" ->
                FailureAndThen(self, step.does, newId)

\* self.m1(f1).m2(f2)...: each method on what the one before returned; an
\* exception ends the expression.  The log has every callback invocation.
RECURSIVE RunMethods(_, _, _, _)
RunMethods(self, steps, i, log) ==
    IF i > Len(steps) THEN [threw |-> FALSE, out |-> self, log |-> log]
    ELSE LET r == CallMethod(self, steps[i], i + 1)
             seen == log \o [k \in 1 .. Len(r.args) |->
                                [index |-> i, arg |-> r.args[k]]]
         IN  IF r.threw
             THEN [threw |-> TRUE, out |-> r.out, log |-> seen]
             ELSE RunMethods(r.out, steps, i + 1, seen)

\* the steps of a chain of calls: the method and what its callback does
MethodSteps ==
    [method : {"map"}, does : {Returns(JsZero), Thrown(ErrorObj("boom"))}]
    \cup [method : {"flatMap", "andThen"},
          does : {Returns(Ok(JsText)), Returns(Err(JsZero)),
                  Thrown(ErrorObj("boom"))}]

CallMethods ==
    /\ mCall.op = "methods"
    /\ mRet = NoResult
    /\ mRet' = RunMethods(Ref(1, mCall.start), mCall.steps, 1, <<>>)
    /\ UNCHANGED mCall
    /\ MethodFrame

\* the text a template literal makes of a value
JsToString(value) ==
    IF "js" \in DOMAIN value THEN value.v
    ELSE value.name \o ": " \o value.message

\* a slip of Failure.unwrap: the empty marker of the data slot is returned
FailureUnwrapMarker(error) == Returned(NewNone, <<>>)

\* Failure.unwrap: throw new Error(`Called unwrap on failure: ${error}`)
FailureUnwrap(error) ==
    Raised(ErrorObj("Called unwrap on failure: " \o JsToString(error)), <<>>)

\* Failure.expect: throw new Error(`${message}: ${error}`)
FailureExpect(message, error) ==
    Raised(ErrorObj(message \o ": " \o JsToString(error)), <<>>)

\* Success.unwrap and Success.expect: return this._data
SuccessUnwrap(data) == Returned(data, <<>>)

CallUnwrap ==
    /\ mCall.op = "unwrap"
    /\ mRet = NoResult
    /\ mRet' = IF IsOk(mCall.self) THEN SuccessUnwrap(mCall.self.data)
               ELSE FailureUnwrap(mCall.self.error)
    /\ UNCHANGED mCall
    /\ MethodFrame

CallExpect ==
    /\ mCall.op = "expect"
    /\ mRet = NoResult
    /\ mRet' = IF IsOk(mCall.self) THEN SuccessUnwrap(mCall.self.data)
               ELSE FailureExpect(mCall.message, mCall.self.error)
    /\ UNCHANGED mCall
    /\ MethodFrame

JsFalse == [js |-> "boolean", v |-> "false"]
JsMissingValue == [js |-> "string", v |-> "missing_value"]

\* a slip of Result.fromNullable: every falsy value counts as absent
ResultFromNullableFalsy(value, error) ==
    IF value = JsText
    THEN Returned(Ok(value), <<>>)
    ELSE Returned(Err(IF error # JsUndefined THEN error ELSE JsMissingValue),
                  <<>>)

\* Result.fromNullable: value != null is false for null and undefined
\* only; a parameter the caller left out is undefined
ResultFromNullable(value, error) ==
    IF ~(value = JsNull \/ value = JsUndefined)
    THEN Returned(Ok(value), <<>>)
    ELSE Returned(Err(IF error # JsUndefined THEN error ELSE JsMissingValue),
                  <<>>)

CallResultFromNullable ==
    /\ mCall.op = "fromNullable"
    /\ mRet = NoResult
    /\ mRet' = ResultFromNullable(mCall.value, mCall.error)
    /\ UNCHANGED mCall
    /\ MethodFrame

\* tuple[1] instanceof Object && "isNone" in tuple[1] && tuple[1].isNone():
\* of the values modelled only an Option has isNone
IsAbsentOption(slot) == "tag" \in DOMAIN slot /\ slot.tag = "None"

\* a slip of Result.fromTuple: the first slot decides
FromTupleByFirstSlot(tuple) ==
    IF IsAbsentOption(tuple[1])
    THEN Returned(Err(tuple[2]), <<>>)
    ELSE Returned(Ok(tuple[1]), <<>>)

\* Result.fromTuple; tuple[1] and tuple[2] are the slots 0 and 1
FromTuple(tuple) ==
    IF IsAbsentOption(tuple[2])
    THEN Returned(Ok(tuple[1]), <<>>)
    ELSE Returned(Err(tuple[2]), <<>>)

CallFromTuple ==
    /\ mCall.op = "fromTuple"
    /\ mRet = NoResult
    /\ mRet' = FromTuple(mCall.tuple)
    /\ UNCHANGED mCall
    /\ MethodFrame

\* what the function handed to tryCatch, safeTry or fromThrowable is and
\* does: not callable; or it returns a value that is no promise, throws,
\* or returns a promise that fulfils or rejects
NotCallable == [tag |-> "NotCallable"]
Resolves(value) == [tag |-> "Resolves", value |-> value]
Rejects(error) == [tag |-> "Rejects", error |-> error]
\* the promise itself, as the value a synchronous caller gets
JsPromise == [js |-> "object", v |-> "[object Promise]"]

\* a promise that has settled
Settled(state, value) == [promise |-> state, value |-> value]

\* Result.tryCatch: an async function, so what it returns or throws
\* settles the promise it hands back
TryCatch(does) ==
    CASE does.tag = "NotCallable" ->
           Returned(Settled("fulfilled", Err(ErrorObj(
               "tryCatch requires a function argument"))), <<>>)
      [] does.tag \in {"Returns", "Resolves"} ->
           Returned(Settled("fulfilled", Ok(does.value)), <<>>)
      [] does.tag \in {"Thrown", "Rejects"} ->
           Returned(Settled("fulfilled", Err(does.error)), <<>>)

\* a slip of Result.safeTry: no try around fn()
SafeTryRethrows(does) ==
    CASE does.tag = "NotCallable" ->
           Returned(Err(ErrorObj("safeTry requires a function argument")),
                    <<>>)
      [] does.tag = "Returns" -> Returned(Ok(does.value), <<>>)
      [] does.tag \in {"Resolves", "Rejects"} ->
           Returned(Ok(JsPromise), <<>>)
      [] does.tag = "Thrown" -> Raised(does.error, <<>>)

\* Result.safeTry: a promise fn returns is a value like any other
SafeTry(does) ==
    CASE does.tag = "NotCallable" ->
           Returned(Err(ErrorObj("safeTry requires a function argument")),
                    <<>>)
      [] does.tag = "Returns" -> Returned(Ok(does.value), <<>>)
      [] does.tag \in {"Resolves", "Rejects"} ->
           Returned(Ok(JsPromise), <<>>)
      [] does.tag = "Thrown" -> Returned(Err(does.error), <<>>)

\* the wrapper Result.fromThrowable returns: safeTry(() => fn(...args)),
\* where the call of an fn that is not callable throws a TypeError
FromThrowableWrapper(does) ==
    SafeTry(IF does.tag = "NotCallable" THEN Thrown(TypeErrorObj) ELSE does)

CallTryCatch ==
    /\ mCall.op = "tryCatch"
    /\ mRet = NoResult
    /\ mRet' = TryCatch(mCall.does)
    /\ UNCHANGED mCall
    /\ MethodFrame

CallSafeTry ==
    /\ mCall.op = "safeTry"
    /\ mRet = NoResult
    /\ mRet' = SafeTry(mCall.does)
    /\ UNCHANGED mCall
    /\ MethodFrame

CallFromThrowable ==
    /\ mCall.op = "fromThrowable"
    /\ mRet = NoResult
    /\ mRet' = FromThrowableWrapper(mCall.does)
    /\ UNCHANGED mCall
    /\ MethodFrame

\* the entry of an invocation that passes no argument
NoArgument == [js |-> "nothing", v |-> ""]

\* a slip of Some.unwrapOrElse: the fallback is computed, then dropped
SomeUnwrapOrElseEager(self, does) == Returned(self.obj.data, <<NoArgument>>)

\* Some.unwrapOrElse: return this.data
SomeUnwrapOrElse(self, does) == Returned(self.obj.data, <<>>)

\* None.unwrapOrElse: return fn()
NoneUnwrapOrElse(self, does) ==
    IF Threw(does) THEN Raised(does.error, <<NoArgument>>)
    ELSE Returned(does.value, <<NoArgument>>)

\* Some.orElse: return this
SomeOrElse(self, does) == Returned(self, <<>>)

\* None.orElse: return fn(), the Option fn made being a new object
NoneOrElse(self, does) ==
    IF Threw(does) THEN Raised(does.error, <<NoArgument>>)
    ELSE Returned(Ref(2, does.value), <<NoArgument>>)

\* Some.okOrElse: return new Success(this.data)
SomeOkOrElse(self, does) == Returned(Ok(self.obj.data), <<>>)

\* None.okOrElse: return new Failure(errorFn())
NoneOkOrElse(self, does) ==
    IF Threw(does) THEN Raised(does.error, <<NoArgument>>)
    ELSE Returned(Err(does.value), <<NoArgument>>)

CallUnwrapOrElse ==
    /\ mCall.op = "unwrapOrElse"
    /\ mRet = NoResult
    /\ mRet' = IF IsSome(mCall.self)
               THEN SomeUnwrapOrElse(Ref(1, mCall.self), mCall.does)
               ELSE NoneUnwrapOrElse(Ref(1, mCall.self), mCall.does)
    /\ UNCHANGED mCall
    /\ MethodFrame

CallOrElse ==
    /\ mCall.op = "orElse"
    /\ mRet = NoResult
    /\ mRet' = IF IsSome(mCall.self)
               THEN SomeOrElse(Ref(1, mCall.self), mCall.does)
               ELSE NoneOrElse(Ref(1, mCall.self), mCall.does)
    /\ UNCHANGED mCall
    /\ MethodFrame

CallOkOrElse ==
    /\ mCall.op = "okOrElse"
    /\ mRet = NoResult
    /\ mRet' = IF IsSome(mCall.self)
               THEN SomeOkOrElse(Ref(1, mCall.self), mCall.does)
               ELSE NoneOkOrElse(Ref(1, mCall.self), mCall.does)
    /\ UNCHANGED mCall
    /\ MethodFrame

\* the patterns argument of match: missing, or an object with two
\* handlers that are callable or not
MissingPatterns == [missing |-> TRUE]
Handler(name, arg) == [handler |-> name, arg |-> arg]

\* a handler is invoked: what it does is how the match ends
InvokeHandler(does, name, arg) ==
    IF Threw(does) THEN Raised(does.error, <<Handler(name, arg)>>)
    ELSE Returned(does.value, <<Handler(name, arg)>>)

\* a slip of Option.match: the handlers are not checked before the dispatch
OptionMatchUnchecked(self, patterns) ==
    IF patterns = MissingPatterns THEN Raised(TypeErrorObj, <<>>)
    ELSE IF IsSome(self)
         THEN (IF patterns.some = NotCallable THEN Raised(TypeErrorObj, <<>>)
               ELSE InvokeHandler(patterns.some, "some", self.data))
         ELSE (IF patterns.none = NotCallable THEN Raised(TypeErrorObj, <<>>)
               ELSE InvokeHandler(patterns.none, "none", NoArgument))

\* Option.match
OptionMatch(self, patterns) ==
    IF \/ patterns = MissingPatterns
       \/ patterns.some = NotCallable
       \/ patterns.none = NotCallable
    THEN Raised(ErrorObj("Invalid pattern object: both some and none "
                         \o "handlers must be functions"), <<>>)
    ELSE IF IsSome(self)
         THEN InvokeHandler(patterns.some, "some", self.data)
         ELSE InvokeHandler(patterns.none, "none", NoArgument)

\* Result.match: three asserts with one message, then the dispatch
ResultMatch(self, patterns) ==
    IF \/ patterns = MissingPatterns
       \/ patterns.ok = NotCallable
       \/ patterns.err = NotCallable
    THEN Raised(ErrorObj("Invalid pattern object: both ok and err "
                         \o "handlers must be functions"), <<>>)
    ELSE IF IsOk(self)
         THEN InvokeHandler(patterns.ok, "ok", self.data)
         ELSE InvokeHandler(patterns.err, "err", self.error)

CallOptionMatch ==
    /\ mCall.op = "optionMatch"
    /\ mRet = NoResult
    /\ mRet' = OptionMatch(mCall.self, mCall.patterns)
    /\ UNCHANGED mCall
    /\ MethodFrame

CallResultMatch ==
    /\ mCall.op = "resultMatch"
    /\ mRet = NoResult
    /\ mRet' = ResultMatch(mCall.self, mCall.patterns)
    /\ UNCHANGED mCall
    /\ MethodFrame

\* Some.map, Some.flatMap and Some.andThen with a callback that returns
\* or throws; on None the callback is not invoked
OptionMethod(self, method, does) ==
    IF IsNone(self) THEN Returned(NewNone, <<>>)
    ELSE IF Threw(does) THEN Raised(does.error, <<self.data>>)
    ELSE LET out == IF method = "map" THEN Map(self, does.value)
                    ELSE FlatMap(self, [x \in {self.data} |-> does.value])
         IN  IF Threw(out) THEN Raised(out.error, <<self.data>>)
             ELSE Returned(out, <<self.data>>)

CallOptionMethod ==
    /\ mCall.op = "optionMethod"
    /\ mRet = NoResult
    /\ mRet' = OptionMethod(mCall.self, mCall.method, mCall.does)
    /\ UNCHANGED mCall
    /\ MethodFrame

(***************************************************************************)
(* The calls                                                                *)
(***************************************************************************)
\* the numbers an option is drawn from (halves), NaN and undefined
OptionNumbers(hs) == {Half(h) : h \in hs} \cup {NaN, Undefined}

RetryCalled ==
    /\ rpc = "called"
    /\ attempts = 0
    /\ lastError = UndefinedValue
    /\ invocations = <<>>
    /\ inFlight = 0
    /\ delays = <<>>
    /\ retryResult = NoResult

RetryIdle ==
    /\ fn = TRUE
    /\ options = [maxAttempts |-> Undefined, baseDelay |-> Undefined,
                  maxDelay |-> Undefined, exponentialBase |-> Undefined]
    /\ RetryCalled

TimeoutCalled ==
    /\ wpc = "called"
    /\ thenAttached = FALSE
    /\ reactionDone = FALSE
    /\ timer = "unset"
    /\ returned = ReturnedNone

TimeoutIdle ==
    /\ promise = Pending
    /\ timeoutMs = Int2Num(1)
    /\ timeoutError = [given |-> FALSE, text |-> ""]
    /\ TimeoutCalled

BatchCalled ==
    /\ allOut = NoResult
    /\ combineOut = NoResult
    /\ allErrorsOut = NoResult
    /\ collectOut = NoResult
    /\ partitionOut = NoResult
    /\ allSettledOut = NoResult

BatchIdle ==
    /\ results = ArrayOf(<<>>)
    /\ BatchCalled

ChainCalled ==
    /\ cpc = "called"
    /\ chainI = 0
    /\ current = NoResult
    /\ chainCalls = <<>>
    /\ chainOut = NoResult

ChainIdle ==
    /\ chainFns = <<>>
    /\ initialValue = "v1"
    /\ ChainCalled

OptCalled == optRet = NoResult

OptIdle ==
    /\ optCall = [op |-> "none"]
    /\ OptCalled

SomeIdle ==
    /\ regA = NewNone
    /\ regB = NewNone
    /\ someCall = [op |-> "none"]
    /\ someRet = NoResult

MethodIdle ==
    /\ mCall = [op |-> "none"]
    /\ mRet = NoResult

InitRetry ==
    /\ fn \in BOOLEAN
    /\ options \in
         [maxAttempts : OptionNumbers(-2 .. 2 * MaxAttemptsBound),
          baseDelay : OptionNumbers({-2, 0, 2, 6}),
          maxDelay : OptionNumbers({-2, 0, 4, 10}),
          exponentialBase : OptionNumbers({-2, 0, 1, 2, 3, 4})]
    /\ RetryCalled
    /\ TimeoutIdle
    /\ BatchIdle
    /\ ChainIdle
    /\ OptIdle
    /\ SomeIdle
    /\ MethodIdle

NextRetry ==
    \/ RetryStart
    \/ RetryInvoke
    \/ FnResolves
    \/ FnRejects
    \/ DelayElapses
    \/ RetryExhausted

SpecRetry == InitRetry /\ [][NextRetry]_vars

\* every await of retry is resumed: the promise of fn() settles, the timer
\* of setTimeout fires, and the synchronous code between two awaits runs
RetryFairness ==
    /\ WF_vars(RetryStart)
    /\ WF_vars(RetryInvoke)
    /\ WF_vars(FnResolves \/ FnRejects)
    /\ WF_vars(DelayElapses)
    /\ WF_vars(RetryExhausted)

FairSpecRetry == InitRetry /\ [][NextRetry]_vars /\ RetryFairness

InitTimeout ==
    /\ promise \in {NotThenable, Pending}
                   \cup {Fulfilled(v) : v \in Values}
                   \cup {Rejected(e) : e \in Rejections}
    /\ timeoutMs \in {Half(h) : h \in -2 .. 4} \cup {NaN, Undefined, NotANumber}
    /\ timeoutError \in {[given |-> FALSE, text |-> ""],
                         [given |-> TRUE, text |-> "timeout"]}
    /\ TimeoutCalled
    /\ RetryIdle
    /\ BatchIdle
    /\ ChainIdle
    /\ OptIdle
    /\ SomeIdle
    /\ MethodIdle

NextTimeout ==
    \/ WithTimeoutCall
    \/ PromiseFulfils
    \/ PromiseRejects
    \/ ThenReaction
    \/ TimerFires

SpecTimeout == InitTimeout /\ [][NextTimeout]_vars

\* every sequence over S of length at most n
SeqsUpTo(S, n) == UNION {[1 .. m -> S] : m \in 0 .. n}

InitBatch ==
    /\ results \in {ArrayOf(items) : items \in SeqsUpTo(Elements, MaxLen)}
                   \cup {NotAnArray}
    /\ BatchCalled
    /\ RetryIdle
    /\ TimeoutIdle
    /\ ChainIdle
    /\ OptIdle
    /\ SomeIdle
    /\ MethodIdle

NextBatch ==
    \/ CallAll
    \/ CallCombine
    \/ CallCombineWithAllErrors
    \/ CallCollect
    \/ CallPartition
    \/ CallAllSettled

SpecBatch == InitBatch /\ [][NextBatch]_vars

InitChain ==
    /\ chainFns \in SeqsUpTo({"function", "notFunction"}, MaxSteps)
    /\ initialValue \in Values
    /\ ChainCalled
    /\ RetryIdle
    /\ TimeoutIdle
    /\ BatchIdle
    /\ OptIdle
    /\ SomeIdle
    /\ MethodIdle

NextChain ==
    \/ ChainBuild
    \/ ChainInvoke
    \/ ChainStep
    \/ ChainReturn

SpecChain == InitChain /\ [][NextChain]_vars

\* the calls of the Option operations, each with its arguments
OptionCalls ==
    [op : {"roundTrip"}, v : AnyValues, e : AnyValues]
    \cup [op : {"toResult"},
          option : OptionInstances \cup {JsNull, JsUndefined},
          error : AnyValues]
    \cup [op : {"fromResult"}, result : ResultInstances \cup {Falsy, NoIsErr}]
    \cup [op : {"isNoneOr"}, option : OptionInstances, predicate : Predicates]
    \cup [op : {"flatMap"},
          option : {NewNone} \cup {NewSome(v) : v \in FlatMapValues},
          f : FlatMapCallbacks,
          g : FlatMapCallbacks]

InitOption ==
    /\ optCall \in OptionCalls
    /\ OptCalled
    /\ RetryIdle
    /\ TimeoutIdle
    /\ BatchIdle
    /\ ChainIdle
    /\ SomeIdle
    /\ MethodIdle

NextOption ==
    \/ CallRoundTrip
    \/ CallToResult
    \/ CallFromResult
    \/ CallIsNoneOr
    \/ CallFlatMapTwice

SpecOption == InitOption /\ [][NextOption]_vars

InitSome ==
    /\ SomeIdle
    /\ RetryIdle
    /\ TimeoutIdle
    /\ BatchIdle
    /\ ChainIdle
    /\ OptIdle
    /\ MethodIdle

NextSome ==
    \/ DoSome
    \/ DoFromNullable
    \/ DoFromResult
    \/ DoMap
    \/ DoFlatMap
    \/ DoZip
    \/ DoFilter
    \/ DoOr
    \/ DoXor

SpecSome == InitSome /\ [][NextSome]_vars

\* the values an error or a payload is drawn from: JavaScript values and
\* an Error object
Payloads == AnyValues \cup {ErrorObj("a")}

\* what a function handed over by the caller is and does
Behaviours ==
    {NotCallable}
    \cup {Returns(v) : v \in Payloads}
    \cup {Thrown(e) : e \in Payloads}
    \cup {Resolves(v) : v \in Payloads}
    \cup {Rejects(e) : e \in Payloads}

\* a handler of match: not callable, or what it does when invoked
Handlers ==
    {NotCallable, Returns(JsText), Returns(JsZero), Thrown(ErrorObj("boom"))}

\* the method calls, each with its receiver and arguments
MethodCalls ==
    [op : {"methods"},
     start : {Ok(JsZero), Err(JsText), Err(ErrorObj("a"))},
     steps : SeqsUpTo(MethodSteps, MaxCalls)]
    \cup [op : {"unwrap"},
          self : {Ok(v) : v \in Payloads} \cup {Err(e) : e \in Payloads}]
    \cup [op : {"expect"},
          self : {Ok(v) : v \in Payloads} \cup {Err(e) : e \in Payloads},
          message : {"", "must be there"}]
    \cup [op : {"fromNullable"},
          value : AnyValues \cup {JsFalse},
          error : Payloads]
    \cup [op : {"fromTuple"},
          tuple : (Payloads \cup {NewNone})
                  \X (Payloads \cup {NewNone, NewSome(JsZero)})]
    \cup [op : {"tryCatch", "safeTry", "fromThrowable"}, does : Behaviours]
    \cup [op : {"unwrapOrElse", "okOrElse"},
          self : OptionInstances,
          does : {Returns(v) : v \in PresentValues}
                 \cup {Thrown(ErrorObj("boom"))}]
    \cup [op : {"orElse"},
          self : OptionInstances,
          does : {Returns(o) : o \in OptionInstances}
                 \cup {Thrown(ErrorObj("boom"))}]
    \cup [op : {"optionMatch"},
          self : {NewNone, NewSome(JsZero)},
          patterns : [some : Handlers, none : Handlers]
                     \cup {MissingPatterns}]
    \cup [op : {"resultMatch"},
          self : {Ok(JsZero), Err(JsText)},
          patterns : [ok : Handlers, err : Handlers] \cup {MissingPatterns}]
    \cup [op : {"optionMethod"},
          self : {NewNone, NewSome(JsZero)},
          method : {"map"},
          does : {Returns(JsText), Returns(JsNull),
                  Thrown(ErrorObj("boom"))}]
    \cup [op : {"optionMethod"},
          self : {NewNone, NewSome(JsZero)},
          method : {"flatMap", "andThen"},
          does : {Returns(NewNone), Returns(NewSome(JsText)),
                  Thrown(ErrorObj("boom"))}]

InitMethods ==
    /\ mCall \in MethodCalls
    /\ mRet = NoResult
    /\ RetryIdle
    /\ TimeoutIdle
    /\ BatchIdle
    /\ ChainIdle
    /\ OptIdle
    /\ SomeIdle

NextMethods ==
    \/ CallMethods
    \/ CallUnwrap
    \/ CallExpect
    \/ CallResultFromNullable
    \/ CallFromTuple
    \/ CallTryCatch
    \/ CallSafeTry
    \/ CallFromThrowable
    \/ CallUnwrapOrElse
    \/ CallOrElse
    \/ CallOkOrElse
    \/ CallOptionMatch
    \/ CallResultMatch
    \/ CallOptionMethod

SpecMethods == InitMethods /\ [][NextMethods]_vars

(***************************************************************************)
(* Properties of Result.retry (checked under SpecRetry).                    *)
(***************************************************************************)
\* the conditions the options must meet, as the specification words them
IsPositiveInteger(x) == x.k = "num" /\ x.d = 1 /\ x.n >= 1
IsNonNegative(x) == x.k = "num" /\ x.n >= 0
IsNegative(x) == x.k = "num" /\ x.n < 0
IsStrictlyPositive(x) == x.k = "num" /\ x.n > 0

ValidOptions ==
    /\ fn
    /\ IsPositiveInteger(maxAttempts)
    /\ IsNonNegative(baseDelay)
    /\ IsNonNegative(maxDelay)
    /\ IsStrictlyPositive(exponentialBase)

AllRejected == \A i \in 1 .. Len(invocations) : IsErr(invocations[i])

\* min(baseDelay * exponentialBase^(n-1), maxDelay)
ExpectedDelay(n) ==
    MathMin(NumMul(baseDelay, MathPow(exponentialBase, n - 1)), maxDelay)

RECURSIVE ExpectedDelaySum(_)
ExpectedDelaySum(k) ==
    IF k = 0 THEN Int2Num(0)
    ELSE NumAdd(ExpectedDelaySum(k - 1), ExpectedDelay(k))

RECURSIVE SumOf(_)
SumOf(ds) ==
    IF ds = <<>> THEN Int2Num(0)
    ELSE NumAdd(SumOf(SubSeq(ds, 1, Len(ds) - 1)), ds[Len(ds)])

\* C1: with valid options, when every invocation of fn rejects, fn is
\* invoked exactly maxAttempts times, exactly maxAttempts - 1 delays are
\* taken (none after the final failed attempt), and the result is
\* Failure({attempts: maxAttempts, lastError}) with the last rejection.
C1_ExhaustedAfterMaxAttempts ==
    (ValidOptions /\ AllRejected) =>
        /\ Len(invocations) <= maxAttempts.n
        /\ Len(invocations) = maxAttempts.n =>
              /\ Len(delays) = maxAttempts.n - 1
              /\ rpc # "awaitDelay"
        /\ rpc = "returned" =>
              /\ Len(invocations) = maxAttempts.n
              /\ Len(delays) = maxAttempts.n - 1
              /\ retryResult =
                   Err([attempts |-> maxAttempts.n,
                        lastError |-> invocations[Len(invocations)].error])

C1_Witness ==
    /\ ValidOptions
    /\ AllRejected
    /\ rpc = "returned"
    /\ Len(invocations) = MaxAttemptsBound
    /\ invocations[1] # invocations[Len(invocations)]

\* C2: with valid options, when fn resolves with v on its k-th invocation
\* the result is Success(v) after exactly k invocations and k - 1 delays
\* whose sum is the sum of min(baseDelay * exponentialBase^(i-1), maxDelay)
\* for i in 1..k-1; nothing is invoked or delayed after the resolution.
C2_SuccessOnKthAttempt ==
    ValidOptions =>
        \A k \in 1 .. Len(invocations) :
            IsOk(invocations[k]) =>
                /\ k = Len(invocations)
                /\ k <= maxAttempts.n
                /\ attempts = k
                /\ rpc = "returned"
                /\ inFlight = 0
                /\ retryResult = Ok(invocations[k].data)
                /\ Len(delays) = k - 1
                /\ SumOf(delays) = ExpectedDelaySum(k - 1)

C2_Witness ==
    /\ ValidOptions
    /\ rpc = "returned"
    /\ Len(invocations) = 3
    /\ retryResult = Ok("v1")
    /\ delays = <<Int2Num(1), Int2Num(2)>>

\* C3: the delay requested after the n-th failed attempt equals
\* min(baseDelay * exponentialBase^(n-1), maxDelay); every requested delay
\* is at most maxDelay and the first one is min(baseDelay, maxDelay).
C3_DelayFormula ==
    \A n \in 1 .. Len(delays) :
        /\ delays[n] = ExpectedDelay(n)
        /\ NumLe(delays[n], maxDelay)
        /\ n = 1 => delays[n] = MathMin(baseDelay, maxDelay)

\* C4: when fn is not callable, maxAttempts is not a positive integer,
\* baseDelay or maxDelay is negative, or exponentialBase is not strictly
\* positive, the result is a Failure with attempts = 0 carrying a
\* validation error, fn is never invoked and no delay is taken.
C4_ValidationShortCircuits ==
    (/\ rpc # "called"
     /\ \/ ~fn
        \/ ~IsPositiveInteger(maxAttempts)
        \/ IsNegative(baseDelay)
        \/ IsNegative(maxDelay)
        \/ ~IsStrictlyPositive(exponentialBase)) =>
        /\ rpc = "returned"
        /\ IsErr(retryResult)
        /\ retryResult.error.attempts = 0
        /\ retryResult.error.lastError.name = "Error"
        /\ invocations = <<>>
        /\ inFlight = 0
        /\ delays = <<>>

(***************************************************************************)
(* Properties of Result.withTimeout (checked under SpecTimeout).            *)
(***************************************************************************)
\* the result follows the event that settled the race, and the timer of a
\* race the promise won is still armed until it fires
C5_Decided ==
    (thenAttached /\ returned.state = "fulfilled") =>
        /\ IsOk(returned.result) =>
              /\ promise.state = "fulfilled"
              /\ returned.result = Ok(promise.value)
              /\ timer \in {"armed", "fired"}
        /\ IsErr(returned.result) =>
              /\ timer = "fired"
              /\ returned.result = Err(TimeoutErrorText)

\* the first event decides, and no later event changes the decision
C5_Step ==
    /\ returned.state \in {"fulfilled", "rejected"} => returned' = returned
    /\ (/\ ~reactionDone
        /\ reactionDone'
        /\ promise.state = "fulfilled"
        /\ timer = "armed") =>
          returned' = ReturnedFulfilled(Ok(promise.value))
    /\ (timer = "armed" /\ timer' = "fired" /\ ~reactionDone) =>
          returned' = ReturnedFulfilled(Err(TimeoutErrorText))

\* C5: the race is decided once by the first event: Success(v) if the
\* promise resolves with v before the timer fires, Failure(timeoutError) if
\* the timer fires first; the losing event still occurs later and never
\* changes the result.
C5_RaceDecidedOnce == [](C5_Decided) /\ [][C5_Step]_vars

C5_Witness ==
    /\ returned.state = "fulfilled"
    /\ IsOk(returned.result)
    /\ timer = "fired"

\* C6: the promise returned by withTimeout fulfils with a Success or a
\* Failure and never rejects, whatever the wrapped promise does.
C6_NeverRejects ==
    /\ returned.state # "rejected"
    /\ returned.state = "fulfilled" =>
          IsOk(returned.result) \/ IsErr(returned.result)

\* C7: when promise is not thenable or timeoutMs is not a number greater
\* than 0, withTimeout returns an already resolved Failure, starts no timer
\* and does not attach to the promise.
C7_ImmediateFailure ==
    (/\ wpc = "returned"
     /\ \/ promise.kind = "notThenable"
        \/ ~(timeoutMs.k = "num" /\ timeoutMs.n > 0)) =>
        /\ returned.state = "fulfilled"
        /\ IsErr(returned.result)
        /\ ~thenAttached
        /\ timer = "unset"

(***************************************************************************)
(* Properties of the batch operations (checked under SpecBatch).            *)
(***************************************************************************)
IsFailureElement(r) == r.tag = "Failure"
IsSuccessElement(r) == r.tag = "Success"
IsNotSuccessElement(r) == r.tag # "Success"
OnlyResults(items) == \A i \in 1 .. Len(items) : ~NotResultShaped(items[i])
HasFailure(items) == \E i \in 1 .. Len(items) : IsFailureElement(items[i])
FirstFailure(items) ==
    CHOOSE i \in 1 .. Len(items) :
        /\ IsFailureElement(items[i])
        /\ \A j \in 1 .. i - 1 : ~IsFailureElement(items[j])
DataOf(items) == [i \in 1 .. Len(items) |-> items[i].data]

FailFastOn(out) ==
    (out # NoResult /\ results.isArray /\ OnlyResults(results.items)) =>
        IF HasFailure(results.items)
        THEN out = Err(results.items[FirstFailure(results.items)].error)
        ELSE /\ out = Ok(DataOf(results.items))
             /\ Len(out.data) = Len(results.items)

\* C8: all and combine on an array of Results are fail-fast: with a Failure
\* in the array they return a Failure with the error of the first Failure
\* in input order; otherwise Success of the unwrapped values in input order.
C8_AllFailFast == FailFastOn(allOut) /\ FailFastOn(combineOut)

C8_Witness ==
    /\ results = ArrayOf(<<Ok("v1"), Err(ErrorObj("b")), Err(ErrorObj("a"))>>)
    /\ allOut = Err(ErrorObj("b"))
    /\ combineOut = Err(ErrorObj("b"))

AllValidationFailure ==
    Err(ErrorObj("all() requires an array containing only Result instances"))

\* C9: for every array with at least one element that is not Result-shaped,
\* at any position, all returns the validation Failure.
C9_ValidatesEveryElement ==
    (/\ allOut # NoResult
     /\ results.isArray
     /\ ~OnlyResults(results.items)) => allOut = AllValidationFailure

\* the first element that is a Failure or is not Result-shaped
FirstStop(items) ==
    CHOOSE i \in 1 .. Len(items) :
        /\ IsNotSuccessElement(items[i])
        /\ \A j \in 1 .. i - 1 : IsSuccessElement(items[j])

\* C9 (amended): for an array with an element that is not Result-shaped,
\* all returns the validation Failure when no Failure precedes the first
\* such element, and otherwise the error of the first Failure; it never
\* returns a Success.
C9_ValidatesUpToFirstFailure ==
    (/\ allOut # NoResult
     /\ results.isArray
     /\ ~OnlyResults(results.items)) =>
        LET stop == results.items[FirstStop(results.items)]
        IN  IF NotResultShaped(stop)
            THEN allOut = AllValidationFailure
            ELSE allOut = Err(stop.error)

C9_Witness ==
    /\ results = ArrayOf(<<Ok("v1"), NoIsErr, Err(ErrorObj("a"))>>)
    /\ allOut = AllValidationFailure

AllErrorsValidationError ==
    ErrorObj("combineWithAllErrors() requires an array containing only Result instances")

\* C10: combineWithAllErrors never short-circuits: Success of the ordered
\* success values iff no error was collected; otherwise Failure of the
\* array holding, in input order, the error of every Failure and one
\* synthesized error per malformed element.
C10_CollectsAllErrors ==
    (allErrorsOut # NoResult /\ results.isArray) =>
        LET bad == SelectSeq(results.items, IsNotSuccessElement)
            good == SelectSeq(results.items, IsSuccessElement)
        IN  /\ IsOk(allErrorsOut) <=> Len(bad) = 0
            /\ IsOk(allErrorsOut) => allErrorsOut.data = DataOf(good)
            /\ IsErr(allErrorsOut) =>
                  /\ Len(allErrorsOut.error) = Len(bad)
                  /\ \A i \in 1 .. Len(bad) :
                        allErrorsOut.error[i] =
                            IF NotResultShaped(bad[i])
                            THEN AllErrorsValidationError
                            ELSE bad[i].error

C10_Witness ==
    /\ results = ArrayOf(<<Err(ErrorObj("b")), NoIsErr, Err(ErrorObj("a"))>>)
    /\ allErrorsOut =
         Err(<<ErrorObj("b"), AllErrorsValidationError, ErrorObj("a")>>)

\* C11: collect has the fail-fast semantics of all: for every array of
\* Results both return the same variant, with the same ordered values on
\* Success and the same first error on Failure.
C11_CollectLikeAll ==
    (/\ collectOut # NoResult
     /\ allOut # NoResult
     /\ results.isArray
     /\ OnlyResults(results.items)) =>
        /\ collectOut.tag = allOut.tag
        /\ IsOk(allOut) => collectOut.data = allOut.data
        /\ IsErr(allOut) => collectOut.error = allOut.error

C11_Witness ==
    /\ results = ArrayOf(<<Ok("v2"), Err(ErrorObj("a")), Err(ErrorObj("b"))>>)
    /\ allOut = Err(ErrorObj("a"))
    /\ collectOut = Err(ErrorObj("a"))

IndexesOf(items, Test(_)) == {i \in 1 .. Len(items) : Test(items[i])}
ErrorsOf(items) == [i \in 1 .. Len(items) |-> items[i].error]

\* C12: partition never short-circuits and loses nothing: for every array
\* of Results, successes holds the values of exactly the Success elements
\* and failures the errors of exactly the Failure elements, each in input
\* order, and the two lengths add up to the length of the input.
C12_PartitionLosesNothing ==
    (/\ partitionOut # NoResult
     /\ results.isArray
     /\ OnlyResults(results.items)) =>
        /\ partitionOut.tag = "Returned"
        /\ partitionOut.successes =
             DataOf(SelectSeq(results.items, IsSuccessElement))
        /\ partitionOut.failures =
             ErrorsOf(SelectSeq(results.items, IsFailureElement))
        /\ Len(partitionOut.successes) + Len(partitionOut.failures) =
             Len(results.items)

C12_Witness ==
    /\ results = ArrayOf(<<Err(ErrorObj("b")), Ok("v2"), Err(ErrorObj("a"))>>)
    /\ partitionOut =
         Buckets(<<"v2">>, <<ErrorObj("b"), ErrorObj("a")>>)

\* the ids of a bucket rise strictly: input order, no object twice
RisingIds(bucket) ==
    \A i, j \in 1 .. Len(bucket) : i < j => bucket[i].id < bucket[j].id

\* C13: allSettled is partition with the wrappers retained: its buckets
\* hold the input Result objects themselves, in input order, and unwrapping
\* each bucket element gives the buckets of partition on the same input.
C13_AllSettledKeepsWrappers ==
    (/\ allSettledOut # NoResult
     /\ partitionOut # NoResult
     /\ results.isArray
     /\ OnlyResults(results.items)) =>
        /\ allSettledOut.tag = "Returned"
        /\ \A i \in 1 .. Len(allSettledOut.successes) :
              LET ref == allSettledOut.successes[i]
              IN  /\ ref.id \in IndexesOf(results.items, IsSuccessElement)
                  /\ ref.obj = results.items[ref.id]
        /\ \A i \in 1 .. Len(allSettledOut.failures) :
              LET ref == allSettledOut.failures[i]
              IN  /\ ref.id \in IndexesOf(results.items, IsFailureElement)
                  /\ ref.obj = results.items[ref.id]
        /\ RisingIds(allSettledOut.successes)
        /\ RisingIds(allSettledOut.failures)
        /\ [i \in 1 .. Len(allSettledOut.successes) |->
               allSettledOut.successes[i].obj.data] = partitionOut.successes
        /\ [i \in 1 .. Len(allSettledOut.failures) |->
               allSettledOut.failures[i].obj.error] = partitionOut.failures

C13_Witness ==
    /\ results = ArrayOf(<<Ok("v1"), Err(ErrorObj("a")), Ok("v2")>>)
    /\ partitionOut # NoResult
    /\ allSettledOut =
         Buckets(<<Ref(1, Ok("v1")), Ref(3, Ok("v2"))>>,
                 <<Ref(2, Err(ErrorObj("a")))>>)

\* the steps invoked so far that returned a Failure
FailedCalls == {j \in 1 .. Len(chainCalls) : IsErr(chainCalls[j].ret)}

\* C14: chain(f1, ..., fn)(v) applies the steps in order, each to the
\* success value of the one before it (the first to v), invokes no step
\* after the first Failure and returns that Failure; when every step
\* succeeds it returns the Success of the last step, and with no steps
\* it returns Success(v).
C14_ChainInOrder ==
    LET n == Len(chainFns)
        k == Len(chainCalls)
    IN  /\ \A j \in 1 .. k :
              /\ chainCalls[j].index = j
              /\ j = 1 => chainCalls[j].arg = initialValue
              /\ j > 1 => /\ IsOk(chainCalls[j - 1].ret)
                          /\ chainCalls[j].arg = chainCalls[j - 1].ret.data
        /\ (cpc = "done" /\ chainOut.tag # "Thrown") =>
              /\ n = 0 => chainOut = Ok(initialValue) /\ k = 0
              /\ FailedCalls # {} =>
                    /\ FailedCalls = {k}
                    /\ chainOut = chainCalls[k].ret
              /\ (n > 0 /\ FailedCalls = {}) =>
                    /\ k = n
                    /\ chainOut = chainCalls[n].ret

C14_Witness ==
    /\ Len(chainFns) = 3
    /\ initialValue = "v1"
    /\ cpc = "done"
    /\ Len(chainCalls) = 2
    /\ chainCalls[1] = [index |-> 1, arg |-> "v1", ret |-> Ok("v2")]
    /\ chainCalls[2] = [index |-> 2, arg |-> "v2", ret |-> Err(ErrorObj("a"))]
    /\ chainOut = Err(ErrorObj("a"))

\* C15: for every value v that is neither null nor undefined and every e,
\* Result.toOption(Option.toResult(Option.some(v), e)) is Some(v), and
\* Option.toResult(Option.none(), e) is the Failure that holds exactly e.
C15_RoundTrip ==
    optRet # NoResult =>
        /\ (optCall.op = "roundTrip" /\ ~IsNullOrUndefined(optCall.v)) =>
              /\ IsSome(optRet)
              /\ optRet.data = optCall.v
        /\ (optCall.op = "toResult" /\ optCall.option = OptionNone) =>
              /\ IsErr(optRet)
              /\ optRet.error = optCall.error

C15_Witness ==
    /\ optCall = [op |-> "roundTrip", v |-> JsZero, e |-> JsText]
    /\ optRet = [tag |-> "Some", data |-> JsZero]

\* C16: Option.fromResult returns normally for every Result instance:
\* every Success, whatever its data (null included), gives a Some of that
\* data and every Failure gives None.
C16_FromResultTotal ==
    (/\ optCall.op = "fromResult"
     /\ optRet # NoResult
     /\ optCall.result \in ResultInstances) =>
        /\ optRet.tag # "Thrown"
        /\ IsOk(optCall.result) =>
              /\ IsSome(optRet)
              /\ optRet.data = optCall.result.data
        /\ IsErr(optCall.result) => IsNone(optRet)

C20_FlatMapAssociative ==
    (optCall.op = "flatMap" /\ optRet # NoResult) =>
        optRet.left = optRet.right

C20_Witness ==
    /\ optCall.op = "flatMap"
    /\ optCall.option = NewSome(JsZero)
    /\ optCall.f[JsZero] = NewSome(JsText)
    /\ optCall.g[JsText] = NewSome(JsZero)
    /\ optRet # NoResult
    /\ optRet.left = NewSome(JsZero)
    /\ optRet.right = NewSome(JsZero)

SomeRequiresValue == Thrown(ErrorObj("Some() requires a value"))

\* C17: after any sequence of some, fromNullable, fromResult, map, flatMap,
\* zip, filter, or and xor no Some holds null or undefined, and an
\* operation that would build a Some from null or undefined throws.
C17_SomeNeverHoldsSentinel ==
    /\ \A option \in {regA, regB, someRet} :
          option.tag = "Some" => ~IsNullOrUndefined(option.data)
    /\ (someCall.op = "some" /\ IsNullOrUndefined(someCall.value)) =>
          someRet = SomeRequiresValue
    /\ (/\ someCall.op = "fromResult"
        /\ IsOk(someCall.result)
        /\ IsNullOrUndefined(someCall.result.data)) =>
          someRet = SomeRequiresValue
    /\ (/\ someCall.op = "map"
        /\ IsSome(someCall.self)
        /\ IsNullOrUndefined(someCall.returned)) =>
          someRet = SomeRequiresValue

C17_Witness ==
    /\ someCall = [op |-> "map", self |-> NewSome(JsZero),
                   returned |-> JsNull]
    /\ someRet = SomeRequiresValue
    /\ regA = NewSome(JsZero)
    /\ regB = NewSome(JsPair(JsZero, JsText))

(***************************************************************************)
(* Properties of the methods (checked under SpecMethods).                   *)
(***************************************************************************)
\* the callback of step i of the chain was invoked
StepInvoked(i) == \E k \in 1 .. Len(mRet.log) : mRet.log[k].index = i

\* C21: map, flatMap and andThen on a Failure never invoke the function
\* and return the very same Failure instance; in a chain of these calls no
\* function after the first Failure runs and that Failure, with its error,
\* is what the chain returns.
C21_FailureShortCircuits ==
    (mCall.op = "methods" /\ mRet # NoResult) =>
        /\ IsErr(mCall.start) =>
              /\ ~mRet.threw
              /\ mRet.out = Ref(1, mCall.start)
              /\ mRet.log = <<>>
        /\ \A i \in 1 .. Len(mCall.steps) :
              (/\ StepInvoked(i)
               /\ mCall.steps[i].does.tag = "Returns"
               /\ mCall.steps[i].method \in {"flatMap", "andThen"}
               /\ IsErr(mCall.steps[i].does.value)) =>
                    /\ \A j \in i + 1 .. Len(mCall.steps) : ~StepInvoked(j)
                    /\ ~mRet.threw
                    /\ mRet.out = Ref(i + 1, mCall.steps[i].does.value)

C21_Witness ==
    /\ mCall.op = "methods"
    /\ mCall.start = Ok(JsZero)
    /\ Len(mCall.steps) = 3
    /\ mCall.steps[1] = [method |-> "andThen", does |-> Returns(Err(JsZero))]
    /\ mCall.steps[2] = [method |-> "map", does |-> Returns(JsZero)]
    /\ mCall.steps[3] = [method |-> "flatMap", does |-> Returns(Ok(JsText))]
    /\ mRet # NoResult
    /\ mRet.out = Ref(2, Err(JsZero))
    /\ mRet.log = <<[index |-> 1, arg |-> JsZero]>>

C23_FromNullable ==
    (mCall.op = "fromNullable" /\ mRet # NoResult) =>
        /\ ~mRet.threw
        /\ mCall.value \notin {JsNull, JsUndefined} =>
              mRet.out = Ok(mCall.value)
        /\ (mCall.value \in {JsNull, JsUndefined}
              /\ mCall.error # JsUndefined) =>
              mRet.out = Err(mCall.error)
        /\ (mCall.value \in {JsNull, JsUndefined}
              /\ mCall.error = JsUndefined) =>
              mRet.out = Err(JsMissingValue)

C23_Witness ==
    /\ mCall = [op |-> "fromNullable", value |-> JsFalse, error |-> JsText]
    /\ mRet = Returned(Ok(JsFalse), <<>>)

ResultGiven ==
    IF mCall.op = "tryCatch" THEN mRet.out.value ELSE mRet.out

\* C25: tryCatch, safeTry and the wrapper of fromThrowable never throw
\* and never reject, whatever the function does and also when it is not
\* callable: they give a Result, a Success with the value returned (or
\* resolved, for tryCatch) and a Failure with exactly the value thrown (or
\* rejected, for tryCatch).
C25_FailuresBecomeValues ==
    (mCall.op \in {"tryCatch", "safeTry", "fromThrowable"}
       /\ mRet # NoResult) =>
        /\ ~mRet.threw
        /\ mCall.op = "tryCatch" => mRet.out.promise = "fulfilled"
        /\ ResultGiven.tag \in {"Success", "Failure"}
        /\ mCall.does.tag = "Returns" =>
              ResultGiven = Ok(mCall.does.value)
        /\ mCall.does.tag = "Thrown" =>
              ResultGiven = Err(mCall.does.error)
        /\ (mCall.op = "tryCatch" /\ mCall.does.tag = "Resolves") =>
              ResultGiven = Ok(mCall.does.value)
        /\ (mCall.op = "tryCatch" /\ mCall.does.tag = "Rejects") =>
              ResultGiven = Err(mCall.does.error)
        /\ mCall.does.tag = "NotCallable" => IsErr(ResultGiven)

C25_Witness ==
    /\ mCall = [op |-> "fromThrowable", does |-> Thrown(JsNull)]
    /\ mRet = Returned(Err(JsNull), <<>>)

\* C26: unwrapOrElse(fn), orElse(fn) and okOrElse(errorFn) do not invoke
\* the function on Some, where they give the value, the same Option and
\* Success(value); on None they invoke it exactly once and use what it
\* returned.
C26_LazyFallbacks ==
    (mCall.op \in {"unwrapOrElse", "orElse", "okOrElse"}
       /\ mRet # NoResult) =>
        IF IsSome(mCall.self)
        THEN /\ mRet.args = <<>>
             /\ ~mRet.threw
             /\ mCall.op = "unwrapOrElse" => mRet.out = mCall.self.data
             /\ mCall.op = "orElse" => mRet.out = Ref(1, mCall.self)
             /\ mCall.op = "okOrElse" => mRet.out = Ok(mCall.self.data)
        ELSE /\ mRet.args = <<NoArgument>>
             /\ mCall.does.tag = "Returns" =>
                   /\ ~mRet.threw
                   /\ mCall.op = "unwrapOrElse" =>
                         mRet.out = mCall.does.value
                   /\ mCall.op = "orElse" =>
                         mRet.out.obj = mCall.does.value
                   /\ mCall.op = "okOrElse" =>
                         mRet.out = Err(mCall.does.value)

C26_Witness ==
    /\ mCall = [op |-> "orElse", self |-> NewNone,
                does |-> Returns(NewSome(JsText))]
    /\ mRet = Returned(Ref(2, NewSome(JsText)), <<NoArgument>>)

\* the patterns of the call are missing or have a handler not callable
InvalidPatterns ==
    \/ mCall.patterns = MissingPatterns
    \/ \E name \in DOMAIN mCall.patterns :
          mCall.patterns[name] = NotCallable

\* the handler match has to pick, and what it has to pass to it
PickedHandler ==
    IF mCall.op = "optionMatch"
    THEN (IF IsSome(mCall.self) THEN Handler("some", mCall.self.data)
          ELSE Handler("none", NoArgument))
    ELSE (IF IsOk(mCall.self) THEN Handler("ok", mCall.self.data)
          ELSE Handler("err", mCall.self.error))

\* C27: Option.match and Result.match throw the invalid-pattern error,
\* invoking no handler, when the pattern object is missing or a handler is
\* not callable; otherwise exactly one handler is invoked exactly once,
\* some/ok with the payload on Some/Success and none/err on None/Failure,
\* and what it returns is the result.
C27_MatchDispatch ==
    (mCall.op \in {"optionMatch", "resultMatch"} /\ mRet # NoResult) =>
        IF InvalidPatterns
        THEN /\ mRet.threw
             /\ mRet.args = <<>>
             /\ mRet.out =
                  ErrorObj("Invalid pattern object: both "
                           \o (IF mCall.op = "optionMatch"
                               THEN "some and none" ELSE "ok and err")
                           \o " handlers must be functions")
        ELSE /\ mRet.args = <<PickedHandler>>
             /\ LET does == mCall.patterns[PickedHandler.handler]
                IN  /\ does.tag = "Returns" =>
                          ~mRet.threw /\ mRet.out = does.value
                    /\ does.tag = "Thrown" =>
                          mRet.threw /\ mRet.out = does.error

C27_Witness ==
    /\ mCall = [op |-> "optionMatch", self |-> NewNone,
                patterns |-> [some |-> NotCallable,
                              none |-> Returns(JsText)]]
    /\ mRet # NoResult
    /\ mRet.threw
    /\ mRet.args = <<>>

\* C28: when the function handed to map, flatMap or andThen on a Some or
\* a Success throws, the exception reaches the caller and no Failure or
\* None is made of it; tryCatch, safeTry and the wrapper of fromThrowable
\* are the ones that turn a thrown exception into a Failure.
C28_ExceptionsPropagate ==
    mRet # NoResult =>
        /\ mCall.op = "methods" =>
              \A i \in 1 .. Len(mCall.steps) :
                  (StepInvoked(i) /\ mCall.steps[i].does.tag = "Thrown") =>
                      /\ mRet.threw
                      /\ mRet.out = mCall.steps[i].does.error
                      /\ \A j \in i + 1 .. Len(mCall.steps) : ~StepInvoked(j)
        /\ (/\ mCall.op = "optionMethod"
            /\ IsSome(mCall.self)
            /\ mCall.does.tag = "Thrown") =>
              /\ mRet.threw
              /\ mRet.out = mCall.does.error
        /\ (/\ mCall.op \in {"tryCatch", "safeTry", "fromThrowable"}
            /\ mCall.does.tag = "Thrown") =>
              /\ ~mRet.threw
              /\ IsErr(ResultGiven)
              /\ ResultGiven.error = mCall.does.error

C28_Witness ==
    /\ mCall.op = "methods"
    /\ mCall.start = Ok(JsZero)
    /\ mCall.steps = <<[method |-> "map", does |-> Returns(JsZero)],
                       [method |-> "flatMap",
                        does |-> Thrown(ErrorObj("boom"))]>>
    /\ mRet # NoResult
    /\ mRet.threw
    /\ mRet.out = ErrorObj("boom")


(***************************************************************************)
(* Termination and sequencing of Result.retry                               *)
(***************************************************************************)
\* the promise of retry has resolved with Succeeded(value), the value of
\* the last invocation
RetrySucceeded ==
    /\ IsOk(retryResult)
    /\ Len(invocations) > 0
    /\ invocations[Len(invocations)] = retryResult

\* the promise of retry has resolved with Exhausted(attempts, lastError)
RetryExhaustedOutcome ==
    /\ IsErr(retryResult)
    /\ DOMAIN retryResult.error = {"attempts", "lastError"}
    /\ retryResult.error.attempts = attempts

RetryTerminal ==
    /\ rpc = "returned"
    /\ inFlight = 0
    /\ RetrySucceeded \/ RetryExhaustedOutcome
    /\ ~(RetrySucceeded /\ RetryExhaustedOutcome)

\* C29: when every invocation of fn settles and every requested delay
\* elapses, each call of retry eventually reaches exactly one terminal
\* outcome, Succeeded(value) or Exhausted(attempts, lastError), and stays
\* there: from some point on the call has returned with that outcome, and
\* the outcome, once set, never changes.
C29_RetryTerminates ==
    /\ <>[]RetryTerminal
    /\ [][retryResult # NoResult => retryResult' = retryResult]_vars

\* retry returned Exhausted after three rejected attempts and two backoffs
C29_Witness ==
    /\ RetryTerminal
    /\ RetryExhaustedOutcome
    /\ attempts = 3
    /\ Len(delays) = 2

\* invocations of fn started so far: the settled ones and the pending one
InvocationsStarted == Len(invocations) + inFlight

C30_Sequential ==
    /\ InvocationsStarted = attempts
    /\ attempts = 0 \/ NumLe(Int2Num(attempts), maxAttempts)
    /\ inFlight \in {0, 1}
    /\ inFlight = 1 <=> rpc = "awaitFn"
    /\ rpc = "awaitDelay" => Len(delays) = attempts

\* a step that starts an invocation of fn
C30_StartsInvocation == InvocationsStarted' > InvocationsStarted

C30_StartStep ==
    C30_StartsInvocation =>
        /\ rpc = "loop"
        /\ retryResult = NoResult
        /\ inFlight = 0
        /\ attempts' = attempts + 1
        /\ InvocationsStarted' = InvocationsStarted + 1
        /\ attempts > 0 =>
              /\ IsErr(invocations[attempts])
              /\ Len(delays) = attempts

\* C30: within one retry call the number of invocations of fn equals the
\* attempts counter and is at most maxAttempts, at most one invocation is
\* in flight, and attempt n+1 starts only after attempt n has rejected and
\* its backoff delay has elapsed: never while a delay is pending and never
\* after a terminal outcome.
C30_AttemptsSequentialAndBounded ==
    /\ []C30_Sequential
    /\ [][C30_StartStep]_vars

\* the second attempt is in flight, after one rejection and one backoff
C30_Witness ==
    /\ rpc = "awaitFn"
    /\ attempts = 2
    /\ inFlight = 1
    /\ Len(delays) = 1
    /\ IsErr(invocations[1])

=============================================================================
